---------------------------- MODULE Spec2Model ----------------------------
(***************************************************************************)
(* A model of the molecular-dynamics engine of Python-MD:                  *)
(*   - the Lennard-Jones potential        (src/src/potential.py),          *)
(*   - the array driver MDSolver.simulate with its three integrators       *)
(*                                        (src/src/moleculardynamics.py),  *)
(*   - the task driver MDSolver.__call__  (src/mdsolver/__init__.py).      *)
(*                                                                         *)
(* Numbers.  The program computes in float64.  Here a real x is the        *)
(* integer x * Scale (binary fixed point); a product or quotient is        *)
(* rounded towards zero, which like IEEE rounding commutes with negation;  *)
(* a magnitude above FMax overflows to FInf.  Arrays are functions on      *)
(* 0..n-1, as numpy indexes them; the lists taken from the upper triangle  *)
(* are sequences, place k of the model being index k-1 of the program.     *)
(***************************************************************************)
EXTENDS Integers, Sequences, FiniteSets, TLC

VARIABLES cfg,      \* the run's configuration: constructor and call arguments
          pc,       \* where the driver is
          t,        \* the loop variable of the integration loop
          r,        \* simulate: self.r, the positions of every step
          v,        \* simulate: self.v, the velocities of every step
          state,    \* __call__: the State tuple the loop carries
          events,   \* integrator invocations and task calls, in program order
          evals,    \* potential evaluations, in program order
          file,     \* simulate: the dump file object f
          probe,    \* the last result of LennardJones.__call__
          series    \* simulate: self.u and self.d, the recorded series

vars == <<cfg, pc, t, r, v, state, events, evals, file, probe, series>>

-----------------------------------------------------------------------------
(* Bounds of the model *)

Scale == 64
MaxPar == 3
MaxSteps == 2
MaxTasks == 2

-----------------------------------------------------------------------------
(* float64 arithmetic *)

FInf == 2147483647
FMax == 1073741823
FNaN == -2147483647

Abs(x) == IF x < 0 THEN -x ELSE x
Sgn(x) == IF x < 0 THEN -1 ELSE 1
Finite(x) == x # FNaN /\ Abs(x) # FInf

One == Scale
Real(n) == n * Scale

\* x + y
FAdd(x, y) ==
    IF x = FNaN \/ y = FNaN THEN FNaN
    ELSE IF Abs(x) = FInf /\ Abs(y) = FInf THEN (IF x = y THEN x ELSE FNaN)
    ELSE IF Abs(x) = FInf THEN x
    ELSE IF Abs(y) = FInf THEN y
    ELSE x + y

FNeg(x) == IF x = FNaN THEN FNaN ELSE -x

\* x - y
FSub(x, y) == FAdd(x, FNeg(y))

\* n * x for a plain integer n (2 * u, 24 * f, 4 * e)
IMul(n, x) ==
    IF x = FNaN THEN FNaN
    ELSE IF n = 0 THEN (IF Abs(x) = FInf THEN FNaN ELSE 0)
    ELSE IF x = 0 THEN 0
    ELSE IF Abs(x) = FInf \/ Abs(x) > FMax \div Abs(n) THEN Sgn(n) * Sgn(x) * FInf
    ELSE n * x

\* x * y
Mul(x, y) ==
    IF x = FNaN \/ y = FNaN THEN FNaN
    ELSE IF x = 0 \/ y = 0
         THEN (IF Abs(x) = FInf \/ Abs(y) = FInf THEN FNaN ELSE 0)
    ELSE IF Abs(x) = FInf \/ Abs(y) = FInf \/ Abs(x) > FMax \div Abs(y)
         THEN Sgn(x) * Sgn(y) * FInf
    ELSE Sgn(x) * Sgn(y) * ((Abs(x) * Abs(y)) \div Scale)

\* x / y  (np.divide: a finite x over zero is a signed infinity, 0/0 is nan)
Div(x, y) ==
    IF x = FNaN \/ y = FNaN THEN FNaN
    ELSE IF Abs(x) = FInf
         THEN (IF Abs(y) = FInf THEN FNaN ELSE Sgn(x) * Sgn(y) * FInf)
    ELSE IF Abs(y) = FInf THEN 0
    ELSE IF y = 0 THEN (IF x = 0 THEN FNaN ELSE Sgn(x) * FInf)
    ELSE IF Abs(x) > FMax \div Scale THEN Sgn(x) * Sgn(y) * FInf
    ELSE Sgn(x) * Sgn(y) * ((Abs(x) * Scale) \div Abs(y))

\* 0.5 * x
Half(x) == IF Finite(x) THEN Sgn(x) * (Abs(x) \div 2) ELSE x

\* x ** n for n >= 1
RECURSIVE Pow(_, _)
Pow(x, n) == IF n = 1 THEN x ELSE Mul(Pow(x, n - 1), x)

\* x ** (-n): zero to a negative power is inf
PowNeg(x, n) == Div(One, Pow(x, n))

\* np.nan_to_num
nan_to_num(x) ==
    IF x = FNaN THEN 0
    ELSE IF x = FInf THEN FMax
    ELSE IF x = -FInf THEN -FMax
    ELSE x

-----------------------------------------------------------------------------
(* arrays *)

Idx(n) == 0 .. (n - 1)

\* an array as a value: its elements are computed once, when it is made
Arr(f) == f @@ <<>>

RECURSIVE SumTo(_, _)
\* f[0] + ... + f[n-1], added left to right
SumTo(f, n) == IF n = 0 THEN 0 ELSE FAdd(SumTo(f, n - 1), f[n - 1])

RECURSIVE SumSeq(_)
SumSeq(s) == IF s = <<>> THEN 0 ELSE FAdd(SumSeq(SubSeq(s, 1, Len(s) - 1)), s[Len(s)])

ZeroVec(dim) == Arr([k \in Idx(dim) |-> 0])
ZeroMat(par, dim) == Arr([i \in Idx(par) |-> ZeroVec(dim)])

\* elementwise x + y, x - y, -x, x * s on vectors; x + y, x * s, 0.5 * x on
\* (par, dim) arrays
VAdd(x, y) == Arr([k \in DOMAIN x |-> FAdd(x[k], y[k])])
VSub(x, y) == Arr([k \in DOMAIN x |-> FSub(x[k], y[k])])
VNeg(x) == Arr([k \in DOMAIN x |-> FNeg(x[k])])
VScale(s, x) == Arr([k \in DOMAIN x |-> Mul(x[k], s)])
MAdd(x, y) == Arr([i \in DOMAIN x |-> VAdd(x[i], y[i])])
MScale(s, x) == Arr([i \in DOMAIN x |-> VScale(s, x[i])])
MHalf(x) == Arr([i \in DOMAIN x |-> Arr([k \in DOMAIN x[i] |-> Half(x[i][k])])])

Par(x) == Cardinality(DOMAIN x)
Dim(x) == Cardinality(DOMAIN x[0])


-----------------------------------------------------------------------------
(* boundary conditions *)

\* the boundaries of a run: per dimension the bounds and the kind,
\* "o" open, "r" reflective, "p" periodic
Boundaries(kinds, lenbulk) ==
    Arr([k \in DOMAIN kinds |-> [lo |-> 0, hi |-> lenbulk, type |-> kinds[k]]])

\* minimum image of one displacement component in a box of length len
MinImage(x, len) == IF 2 * Abs(x) > len THEN x - Sgn(x) * len ELSE x

\* boundaries.checkDistance: the displacements the distances are taken from
checkDistance(bnd, drAll) ==
    Arr([i \in DOMAIN drAll |-> Arr([j \in DOMAIN drAll[i] |->
        Arr([k \in DOMAIN drAll[i][j] |->
            IF bnd[k].type = "p"
            THEN MinImage(drAll[i][j][k], bnd[k].hi - bnd[k].lo)
            ELSE drAll[i][j][k]])])])

-----------------------------------------------------------------------------
(* potential.py: LennardJones *)
(* A definition whose value is used many times takes it as a parameter,  *)
(* so that it is computed once: the stages of one Python function are    *)
(* consecutive definitions.                                              *)

\* x < y on floats: false when either side is nan
Less(x, y) == x # FNaN /\ y # FNaN /\ x < y

\* np.triu_indices(par, 1): the pairs i < j in row-major order, as a list
triu_indices(par) ==
    LET pairs == {p \in Idx(par) \X Idx(par) : p[1] < p[2]}
        before(p) == {q \in pairs : q[1] < p[1] \/ (q[1] = p[1] /\ q[2] < p[2])}
    IN  Arr([k \in 1 .. Cardinality(pairs) |->
                CHOOSE p \in pairs : Cardinality(before(p)) = k - 1])

\* np.nonzero(mask)[0]: the places of a list where the mask holds, ascending
nonzero(mask) ==
    SelectSeq([k \in 1 .. Len(mask) |-> k], LAMBDA k : mask[k])

\* lst[indices]: numpy's gather
Take(lst, indices) == Arr([k \in 1 .. Len(indices) |-> lst[indices[k]]])

\* arr[upperTri] for a (par, par, ...) array
TakeUpper(arr, upperTri) ==
    Arr([k \in 1 .. Len(upperTri) |-> arr[upperTri[k][1]][upperTri[k][2]]])

\* drAll = x - y with x, y = r[:,None,:], r[None,:,:]
Displacements(pos) ==
    Arr([i \in DOMAIN pos |-> Arr([j \in DOMAIN pos |-> VSub(pos[i], pos[j])])])

\* np.einsum('ijk,ijk->ij', drAll, drAll)
SquaredNorms(drAll) ==
    Arr([i \in DOMAIN drAll |-> Arr([j \in DOMAIN drAll[i] |->
        SumTo(Arr([k \in DOMAIN drAll[i][j] |-> Mul(drAll[i][j][k], drAll[i][j][k])]),
              Cardinality(DOMAIN drAll[i][j]))])])

\* a faulty mask: distanceSqrdHalf <= self.cutoff*self.cutoff
CutoffMaskInclusive(distanceSqrdHalf, cutoff) ==
    Arr([k \in 1 .. Len(distanceSqrdHalf) |->
            ~Less(Mul(cutoff, cutoff), distanceSqrdHalf[k])])

\* distanceSqrdHalf < self.cutoff*self.cutoff
CutoffMask(distanceSqrdHalf, cutoff) ==
    Arr([k \in 1 .. Len(distanceSqrdHalf) |->
            Less(distanceSqrdHalf[k], Mul(cutoff, cutoff))])

\* calculateDistanceMatrix, from the upper-triangle lists on
SelectPairs(distanceSqrdAll, distanceSqrdHalf, drHalf, indices) ==
    [distanceSqrdAll |-> distanceSqrdAll,
     distanceSqrd |-> Take(distanceSqrdHalf, indices),
     dr |-> Take(drHalf, indices),
     indices |-> indices]

\* a faulty variant: the cutoff mask is applied to the full matrix as well,
\* so that the distances beyond the cutoff are returned as zero
UpperTriangleErased(drAll, distanceSqrdAll, upperTri, cutoff) ==
    SelectPairs(Arr([i \in DOMAIN distanceSqrdAll |->
                    Arr([j \in DOMAIN distanceSqrdAll[i] |->
                        IF Less(distanceSqrdAll[i][j], Mul(cutoff, cutoff))
                        THEN distanceSqrdAll[i][j] ELSE 0])]),
                TakeUpper(distanceSqrdAll, upperTri),
                TakeUpper(drAll, upperTri),
                nonzero(CutoffMask(TakeUpper(distanceSqrdAll, upperTri), cutoff)))

\* calculateDistanceMatrix, from the squared distances on
UpperTriangle(drAll, distanceSqrdAll, upperTri, cutoff) ==
    SelectPairs(distanceSqrdAll, TakeUpper(distanceSqrdAll, upperTri),
                TakeUpper(drAll, upperTri),
                nonzero(CutoffMask(TakeUpper(distanceSqrdAll, upperTri), cutoff)))

\* calculateDistanceMatrix, from the corrected displacements on
DistancesOf(drAll, par, cutoff) ==
    UpperTriangle(drAll, SquaredNorms(drAll), triu_indices(par), cutoff)

calculateDistanceMatrix(pos, cutoff, bnd) ==
    DistancesOf(checkDistance(bnd, Displacements(pos)), Par(pos), cutoff)

\* u[u == np.inf] = 0; 4 * (np.sum(u) - cutoff**(-12) - cutoff**(-6))
potentialEnergy(u, cutoff) ==
    IMul(4, FSub(FSub(SumSeq(Arr([k \in 1 .. Len(u) |->
                                     IF u[k] = FInf THEN 0 ELSE u[k]])),
                      PowNeg(cutoff, 12)),
                 PowNeg(cutoff, 6)))

\* distancePowSixInv = np.nan_to_num(distanceSqrd**(-3))
PowSixInv(distanceSqrd) ==
    Arr([k \in 1 .. Len(distanceSqrd) |-> nan_to_num(PowNeg(distanceSqrd[k], 3))])

\* distancePowTwelveInv = distancePowSixInv**2
PowTwelveInv(p6) == Arr([k \in 1 .. Len(p6) |-> Mul(p6[k], p6[k])])

\* factor = (2/r^12 - 1/r^6)/r^2; factor[factor == np.inf] = 0
Factor(distanceSqrd, p6, p12) ==
    Arr([k \in 1 .. Len(distanceSqrd) |->
            LET raw == Div(FSub(IMul(2, p12[k]), p6[k]), distanceSqrd[k])
            IN  IF raw = FInf THEN 0 ELSE raw])

\* force = 24 * np.einsum('i,ij->ij', factor, dr)
PairForce(factor, dr) ==
    Arr([k \in 1 .. Len(dr) |->
            Arr([c \in DOMAIN dr[k] |-> IMul(24, Mul(factor[k], dr[k][c]))])])

\* the pair forces and the energy terms distancePowTwelveInv - distancePowSixInv
KernelOf(distanceSqrd, dr, p6, p12) ==
    [force |-> PairForce(Factor(distanceSqrd, p6, p12), dr),
     energy |-> Arr([k \in 1 .. Len(p6) |-> FSub(p12[k], p6[k])])]

KernelFrom(distanceSqrd, dr, p6) == KernelOf(distanceSqrd, dr, p6, PowTwelveInv(p6))

Kernel(distanceSqrd, dr) == KernelFrom(distanceSqrd, dr, PowSixInv(distanceSqrd))

\* arr[idx] = vals on a flat array: the last write to a slot stays
Assign(arr, idx, vals) ==
    Arr([m \in DOMAIN arr |->
            IF \E k \in 1 .. Len(idx) : idx[k] = m
            THEN vals[CHOOSE k \in 1 .. Len(idx) :
                          idx[k] = m /\ \A k2 \in 1 .. Len(idx) : idx[k2] = m => k2 <= k]
            ELSE arr[m]])

\* c = a[upperTri][indices] with a = np.arange(par*par).reshape(par,par)
SlotsC(par, upperTri, indices) ==
    Take(Arr([k \in 1 .. Len(upperTri) |-> upperTri[k][1] * par + upperTri[k][2]]),
         indices)

\* a faulty variant: f = a[upperTri][indices], the transpose forgotten
SlotsFNoTranspose(par, upperTri, indices) ==
    Take(Arr([k \in 1 .. Len(upperTri) |-> upperTri[k][1] * par + upperTri[k][2]]),
         indices)

\* f = a.T[upperTri][indices]
SlotsF(par, upperTri, indices) ==
    Take(Arr([k \in 1 .. Len(upperTri) |-> upperTri[k][2] * par + upperTri[k][1]]),
         indices)

\* force2[c] = force; force2[f] = -force, on the flat (par*par, dim) array
Written(par, dim, c, f, force) ==
    Assign(Assign(Arr([m \in Idx(par * par) |-> ZeroVec(dim)]), c, force),
           f, Arr([k \in 1 .. Len(force) |-> VNeg(force[k])]))

\* force2.reshape(par,par,dim)
Reshape(par, flat) ==
    Arr([i \in Idx(par) |-> Arr([j \in Idx(par) |-> flat[i * par + j]])])

\* force2 after both writes, reshaped
Scatter(par, dim, upperTri, indices, force) ==
    Reshape(par, Written(par, dim, SlotsC(par, upperTri, indices),
                         SlotsF(par, upperTri, indices), force))

\* a faulty variant: np.sum(force2, axis=0), the sum over the wrong axis
SumAxis0(par, dim, force2) ==
    Arr([i \in Idx(par) |-> Arr([c \in Idx(dim) |->
        SumTo(Arr([j \in Idx(par) |-> force2[j][i][c]]), par)])])

\* force3 = np.sum(force2, axis=1)
SumAxis1(par, dim, force2) ==
    Arr([i \in Idx(par) |-> Arr([c \in Idx(dim) |->
        SumTo(Arr([j \in Idx(par) |-> force2[i][j][c]]), par)])])

\* LennardJones.__call__, from force2 on; force2 and the energy terms are
\* kept beside the (force3, u, distanceSqrdAll) it returns
Returned(par, dim, cutoff, cdm, kernel, force2) ==
    [a |-> SumAxis1(par, dim, force2),
     u |-> potentialEnergy(kernel.energy, cutoff),
     d |-> cdm.distanceSqrdAll,
     force2 |-> force2,
     energy |-> kernel.energy]

\* LennardJones.__call__, from the pair forces on
Scattered(par, dim, cutoff, cdm, kernel) ==
    Returned(par, dim, cutoff, cdm, kernel,
             Scatter(par, dim, triu_indices(par), cdm.indices, kernel.force))

\* LennardJones.__call__, from the distances on
ForcesOf(par, dim, cutoff, cdm) ==
    Scattered(par, dim, cutoff, cdm, Kernel(cdm.distanceSqrd, cdm.dr))

\* LennardJones.__call__
LennardJones(pos, cutoff, bnd) ==
    ForcesOf(Par(pos), Dim(pos), cutoff, calculateDistanceMatrix(pos, cutoff, bnd))

-----------------------------------------------------------------------------
(* inputs of the potential *)

\* the lattice points particles are placed on, per dimensionality
Sites(dim) ==
    CASE dim = 1 -> {[k \in Idx(1) |-> Real(x)] : x \in 0 .. 3}
      [] dim = 2 -> {[k \in Idx(2) |-> Real(p[k + 1])] :
                        p \in {<<0, 0>>, <<1, 0>>, <<0, 1>>, <<1, 1>>, <<2, 1>>}}
      [] dim = 3 -> {[k \in Idx(3) |-> Real(p[k + 1])] :
                        p \in {<<0, 0, 0>>, <<0, 1, 1>>, <<1, 0, 1>>, <<1, 1, 0>>}}

Dimensions == {1, 2, 3}
Cutoffs == {Real(1), Real(2), Real(3)}
Kinds == {"o", "r", "p"}
Lenbulk == Real(3)

Uniform(dim, kind) == Arr([k \in Idx(dim) |-> kind])

NoState == [r |-> <<>>, v |-> <<>>, a |-> <<>>, u |-> 0, d |-> <<>>, c |-> 0]
NoSeries == [u |-> <<>>, d |-> <<>>]
NoProbe == [pos |-> <<>>, force2 |-> <<>>, energy |-> <<>>, a |-> <<>>, u |-> 0, d |-> <<>>]

\* what one call of the potential leaves behind
ProbeOf(pos, res) ==
    [pos |-> pos, force2 |-> res.force2, energy |-> res.energy,
     a |-> res.a, u |-> res.u, d |-> res.d]

Probe(pos, cutoff, bnd) == ProbeOf(pos, LennardJones(pos, cutoff, bnd))

InitLJ ==
    /\ \E dim \in Dimensions, par \in 1 .. MaxPar, kind \in Kinds, cutoff \in Cutoffs :
         \E pos \in [Idx(par) -> Sites(dim)] :
            cfg = [driver |-> "potential", r0 |-> pos, cutoff |-> cutoff,
                   boundaries |-> Boundaries(Uniform(dim, kind), Lenbulk)]
    /\ pc = "ready"
    /\ t = 0
    /\ r = <<>>
    /\ v = <<>>
    /\ state = NoState
    /\ events = <<>>
    /\ evals = <<>>
    /\ file = [state |-> "none", opens |-> 0, dumped |-> <<>>]
    /\ probe = NoProbe
    /\ series = NoSeries

\* potential(r): one evaluation of the force, the energy and the distances
Evaluate ==
    /\ cfg.driver = "potential"
    /\ pc = "ready"
    /\ probe' = Probe(cfg.r0, cfg.cutoff, cfg.boundaries)
    /\ evals' = Append(evals, [step |-> 0, at |-> cfg.r0])
    /\ pc' = "done"
    /\ UNCHANGED <<cfg, t, r, v, state, events, file, series>>

NextLJ == Evaluate

SpecLJ == InitLJ /\ [][NextLJ]_vars

-----------------------------------------------------------------------------
(* moleculardynamics.py: the integrators of MDSolver *)

\* every integrator returns the arrays it wrote, the (u, d) it returns and
\* the positions it called the potential at, in call order

\* forwardEuler after a, u, d = potential(self.r[t])
forwardEulerUpdate(tt, rr, vv, dt, pot) ==
    [r |-> [rr EXCEPT ![tt + 1] = MAdd(rr[tt], MScale(dt, vv[tt]))],
     v |-> [vv EXCEPT ![tt + 1] = MAdd(vv[tt], MScale(dt, pot.a))],
     u |-> pot.u, d |-> pot.d, at |-> <<rr[tt]>>]

forwardEuler(tt, rr, vv, dt, cutoff, bnd) ==
    forwardEulerUpdate(tt, rr, vv, dt, LennardJones(rr[tt], cutoff, bnd))

\* a faulty variant: the position is advanced with the old velocity
eulerChromerMoveOld(tt, rr, vv, dt, pot, vNew) ==
    [r |-> [rr EXCEPT ![tt + 1] = MAdd(rr[tt], MScale(dt, vv[tt]))],
     v |-> [vv EXCEPT ![tt + 1] = vNew],
     u |-> pot.u, d |-> pot.d, at |-> <<rr[tt]>>]

\* eulerChromer after self.v[t+1] = self.v[t] + a * self.dt
eulerChromerMove(tt, rr, vv, dt, pot, vNew) ==
    [r |-> [rr EXCEPT ![tt + 1] = MAdd(rr[tt], MScale(dt, vNew))],
     v |-> [vv EXCEPT ![tt + 1] = vNew],
     u |-> pot.u, d |-> pot.d, at |-> <<rr[tt]>>]

\* eulerChromer after a, u, d = potential(self.r[t])
eulerChromerUpdate(tt, rr, vv, dt, pot) ==
    eulerChromerMove(tt, rr, vv, dt, pot, MAdd(vv[tt], MScale(dt, pot.a)))

eulerChromer(tt, rr, vv, dt, cutoff, bnd) ==
    eulerChromerUpdate(tt, rr, vv, dt, LennardJones(rr[tt], cutoff, bnd))

\* velocityVerlet after a_new, u, d = potential(self.r[t+1])
velocityVerletKick(tt, rr, vv, dt, pot, rNew, potNew) ==
    [r |-> [rr EXCEPT ![tt + 1] = rNew],
     v |-> [vv EXCEPT ![tt + 1] =
               MAdd(vv[tt], MScale(dt, MHalf(MAdd(potNew.a, pot.a))))],
     u |-> potNew.u, d |-> potNew.d, at |-> <<rr[tt], rNew>>]

\* a faulty variant: the second evaluation is at the old positions
velocityVerletForceStale(tt, rr, vv, dt, cutoff, bnd, pot, rNew) ==
    [r |-> [rr EXCEPT ![tt + 1] = rNew],
     v |-> [vv EXCEPT ![tt + 1] =
               MAdd(vv[tt], MScale(dt, MHalf(MAdd(
                   LennardJones(rr[tt], cutoff, bnd).a, pot.a))))],
     u |-> pot.u, d |-> pot.d, at |-> <<rr[tt], rr[tt]>>]

\* velocityVerlet after self.r[t+1] = ...
velocityVerletForce(tt, rr, vv, dt, cutoff, bnd, pot, rNew) ==
    velocityVerletKick(tt, rr, vv, dt, pot, rNew, LennardJones(rNew, cutoff, bnd))

\* velocityVerlet after a, u, d = potential(self.r[t])
velocityVerletMove(tt, rr, vv, dt, cutoff, bnd, pot) ==
    velocityVerletForce(tt, rr, vv, dt, cutoff, bnd, pot,
        MAdd(MAdd(rr[tt], MScale(dt, vv[tt])), MScale(Mul(dt, dt), MHalf(pot.a))))

velocityVerlet(tt, rr, vv, dt, cutoff, bnd) ==
    velocityVerletMove(tt, rr, vv, dt, cutoff, bnd, LennardJones(rr[tt], cutoff, bnd))

\* integrator(t, potential) for the bound method handed to simulate
Integrate(name, tt, rr, vv, dt, cutoff, bnd) ==
    CASE name = "forwardEuler" -> forwardEuler(tt, rr, vv, dt, cutoff, bnd)
      [] name = "eulerChromer" -> eulerChromer(tt, rr, vv, dt, cutoff, bnd)
      [] name = "velocityVerlet" -> velocityVerlet(tt, rr, vv, dt, cutoff, bnd)

-----------------------------------------------------------------------------
(* the integrators and the position correction of the mdsolver package *)

\* boundaries.checkPosition on one coordinate and its velocity component
CorrectCoordinate(b, x, vx) ==
    CASE b.type = "p" -> [x |-> b.lo + ((x - b.lo) % (b.hi - b.lo)), v |-> vx]
      [] b.type = "r" -> IF x < b.lo THEN [x |-> 2 * b.lo - x, v |-> -vx]
                         ELSE IF x > b.hi THEN [x |-> 2 * b.hi - x, v |-> -vx]
                         ELSE [x |-> x, v |-> vx]
      [] OTHER -> [x |-> x, v |-> vx]

\* the corrected (coordinate, velocity) pairs as two arrays
Unzip(pairs) ==
    [r |-> Arr([i \in DOMAIN pairs |-> Arr([k \in DOMAIN pairs[i] |-> pairs[i][k].x])]),
     v |-> Arr([i \in DOMAIN pairs |-> Arr([k \in DOMAIN pairs[i] |-> pairs[i][k].v])])]

checkPosition(bnd, pos, vel) ==
    Unzip(Arr([i \in DOMAIN pos |-> Arr([k \in DOMAIN pos[i] |->
              CorrectCoordinate(bnd[k], pos[i][k], vel[i][k])])]))

\* the integrator objects, after the potential at the corrected positions
IntegratorFinish(name, st, dt, fixed, pot) ==
    [r |-> fixed.r,
     v |-> IF name = "VelocityVerlet"
           THEN MAdd(fixed.v, MScale(dt, MHalf(MAdd(st.a, pot.a))))
           ELSE fixed.v,
     a |-> pot.a, u |-> pot.u, d |-> pot.d, c |-> st.c + 1]

\* the integrator objects, after the position correction
IntegratorForce(name, st, dt, cutoff, bnd, fixed) ==
    IntegratorFinish(name, st, dt, fixed, LennardJones(fixed.r, cutoff, bnd))

\* the integrator objects, after v(t) + a(t) dt
IntegratorMove(name, st, dt, cutoff, bnd, vEuler) ==
    IntegratorForce(name, st, dt, cutoff, bnd,
        checkPosition(bnd,
            CASE name = "ForwardEuler" -> MAdd(st.r, MScale(dt, st.v))
              [] name = "EulerChromer" -> MAdd(st.r, MScale(dt, vEuler))
              [] name = "VelocityVerlet" ->
                     MAdd(MAdd(st.r, MScale(dt, st.v)),
                          MScale(Mul(dt, dt), MHalf(st.a))),
            IF name = "VelocityVerlet" THEN st.v ELSE vEuler))

\* integrator(state) -> state, for the three integrator objects
IntegratorObject(name, st, dt, cutoff, bnd) ==
    IntegratorMove(name, st, dt, cutoff, bnd, MAdd(st.v, MScale(dt, st.a)))

-----------------------------------------------------------------------------
(* inputs of a run *)

\* a nested list of coordinates as an array
Mat(rows) ==
    Arr([i \in Idx(Len(rows)) |-> Arr([k \in Idx(Len(rows[1])) |-> rows[i + 1][k + 1]])])

\* 1.5 sigma
OneAndHalf == (3 * Scale) \div 2

\* the initial positions of the repository's example scripts, and a close pair
ExamplePositions ==
    { Mat(<<<<0>>, <<OneAndHalf>>>>),
      Mat(<<<<0>>, <<Real(1)>>>>),
      Mat(<<<<Real(1), Real(1)>>>>),
      Mat(<<<<0>>, <<Real(1)>>, <<Real(3)>>>>),
      Mat(<<<<0, 0>>, <<Real(2), 0>>, <<0, Real(2)>>, <<OneAndHalf, OneAndHalf>>>>) }

InitialPositions == {p \in ExamplePositions : Par(p) <= MaxPar}

\* every component the same / the sign alternating from particle to particle
Ones(par, dim) == Arr([i \in Idx(par) |-> Arr([k \in Idx(dim) |-> One])])
Alternating(par, dim) ==
    Arr([i \in Idx(par) |-> Arr([k \in Idx(dim) |-> IF i % 2 = 0 THEN One ELSE -One])])

\* samples np.random.normal may return for one step's velocities
GaussSamples(par, dim) == {Ones(par, dim), Alternating(par, dim)}

TimeSteps == {Scale \div 4}
TotalTimes(dt) == {n * dt : n \in 0 .. MaxSteps} \cup {dt + 1}
DefaultCutoff == Real(3)

\* self.N = int(T/dt)
NumSteps(T, dt) == Div(T, dt) \div Scale

IntegratorMethods == {"forwardEuler", "eulerChromer", "velocityVerlet"}
IntegratorObjects == {"ForwardEuler", "EulerChromer", "VelocityVerlet"}

Config(driver, r0, v0, T, dt, integrator, kind, ntasks, dumpfile) ==
    [driver |-> driver, r0 |-> r0, v0 |-> v0, T |-> T, dt |-> dt,
     N |-> NumSteps(T, dt),
     integrator |-> integrator, cutoff |-> DefaultCutoff,
     boundaries |-> Boundaries(Uniform(Dim(r0), kind), Lenbulk),
     ntasks |-> ntasks, dumpfile |-> dumpfile,
     poteng |-> FALSE, distance |-> FALSE]

NoFile == [state |-> "none", opens |-> 0, dumped |-> <<>>]

\* self.v after construction: zeros for velocity=None, samples for "gauss"
InitialVelocityArrays(n, par, dim) ==
    {Arr([k \in 0 .. n |-> ZeroMat(par, dim)])}
    \cup {Arr([k \in 0 .. n |-> IF k = 0 THEN first ELSE rest]) :
             first \in GaussSamples(par, dim), rest \in GaussSamples(par, dim)}

\* moleculardynamics.MDSolver.__init__: the arrays self.r and self.v
InitSimulate ==
    \E r0 \in InitialPositions, dt \in TimeSteps, kind \in Kinds,
       integrator \in IntegratorMethods, dumpfile \in BOOLEAN,
       poteng \in BOOLEAN, distance \in BOOLEAN :
      \E T \in TotalTimes(dt) :
        \E vel \in InitialVelocityArrays(NumSteps(T, dt), Par(r0), Dim(r0)) :
          /\ cfg = [Config("simulate", r0, vel[0], T, dt, integrator, kind, 0,
                           dumpfile)
                       EXCEPT !.poteng = poteng, !.distance = distance]
          /\ r = Arr([k \in 0 .. NumSteps(T, dt) |->
                        IF k = 0 THEN r0 ELSE ZeroMat(Par(r0), Dim(r0))])
          /\ v = vel
          /\ state = NoState

\* mdsolver.MDSolver.__init__: self.r0 = positions(), self.v0 = velocities(...)
InitCall ==
    \E r0 \in InitialPositions, dt \in TimeSteps, kind \in Kinds,
       integrator \in IntegratorObjects, ntasks \in 0 .. MaxTasks :
      \E T \in TotalTimes(dt) :
        \E v0 \in {ZeroMat(Par(r0), Dim(r0)), Ones(Par(r0), Dim(r0))} :
          /\ cfg = Config("call", r0, v0, T, dt, integrator, kind, ntasks, FALSE)
          /\ r = <<>>
          /\ v = <<>>
          /\ state = [NoState EXCEPT !.r = r0, !.v = v0]

Init ==
    /\ (InitSimulate \/ InitCall)
    /\ pc = "ready"
    /\ t = 0
    /\ events = <<>>
    /\ evals = <<>>
    /\ file = NoFile
    /\ probe = NoProbe
    /\ series = NoSeries

-----------------------------------------------------------------------------
(* mdsolver/__init__.py: MDSolver.__call__ *)

\* for task in tasks: task._update(state, idx)
Updates(st, idx) ==
    [i \in 1 .. cfg.ntasks |->
        [op |-> "update", task |-> i, idx |-> idx, in |-> NoState, st |-> st]]

\* a faulty finalisation: the last task is never called
FinalsSkipLast ==
    [i \in 1 .. (cfg.ntasks - 1) |->
        [op |-> "final", task |-> i, idx |-> 0, in |-> NoState, st |-> NoState]]

\* for task in tasks: task()
Finals ==
    [i \in 1 .. cfg.ntasks |->
        [op |-> "final", task |-> i, idx |-> 0, in |-> NoState, st |-> NoState]]

\* the potential at r0, the step-0 state, the first round of updates
CallStart ==
    /\ cfg.driver = "call"
    /\ pc = "ready"
    /\ \E pot \in {LennardJones(state.r, cfg.cutoff, cfg.boundaries)} :
         \E st \in {[r |-> state.r, v |-> state.v, a |-> pot.a, u |-> pot.u,
                     d |-> pot.d, c |-> 0]} :
            /\ state' = st
            /\ events' = events \o Updates(st, 0)
    /\ evals' = Append(evals, [step |-> -1, at |-> state.r])
    /\ pc' = "loop"
    /\ UNCHANGED <<cfg, t, r, v, file, probe, series>>

\* a faulty pass of the loop: integrator(state) without rebinding state, so
\* that every pass starts from the step-0 state
CallStepDiscard ==
    /\ cfg.driver = "call"
    /\ pc = "loop"
    /\ t < cfg.N
    /\ \E st \in {IntegratorObject(cfg.integrator, state, cfg.dt, cfg.cutoff,
                                   cfg.boundaries)} :
           /\ events' = Append(events, [op |-> "integrate", task |-> 0, idx |-> t,
                                        in |-> state, st |-> st])
                        \o Updates(state, t)
           /\ evals' = Append(evals, [step |-> t, at |-> st.r])
    /\ t' = t + 1
    /\ UNCHANGED <<cfg, pc, r, v, state, file, probe, series>>

\* one pass of the integration loop: the integrator, then every task
CallStep ==
    /\ cfg.driver = "call"
    /\ pc = "loop"
    /\ t < cfg.N
    /\ \E st \in {IntegratorObject(cfg.integrator, state, cfg.dt, cfg.cutoff,
                                   cfg.boundaries)} :
           /\ state' = st
           /\ events' = Append(events, [op |-> "integrate", task |-> 0, idx |-> t,
                                        in |-> state, st |-> st])
                        \o Updates(st, t)
           /\ evals' = Append(evals, [step |-> t, at |-> st.r])
    /\ t' = t + 1
    /\ UNCHANGED <<cfg, pc, r, v, file, probe, series>>

\* after the loop: every task is called with no arguments
CallFinish ==
    /\ cfg.driver = "call"
    /\ pc = "loop"
    /\ t = cfg.N
    /\ events' = events \o Finals
    /\ pc' = "done"
    /\ UNCHANGED <<cfg, t, r, v, state, evals, file, probe, series>>

-----------------------------------------------------------------------------
(* moleculardynamics.py: MDSolver.simulate *)

\* whether a write of dumpPositions succeeds; it can fail only when there is
\* a dump file
WriteOutcomes == IF cfg.dumpfile THEN BOOLEAN ELSE {TRUE}

\* a list of m values assigned to a (par, par) slice: numpy broadcasts one
\* value to every entry and par values to every row, and raises otherwise
Broadcast(lst, par) ==
    IF Len(lst) = 1
    THEN [ok |-> TRUE, value |-> Arr([i \in Idx(par) |-> Arr([j \in Idx(par) |-> lst[1]])])]
    ELSE IF Len(lst) = par
    THEN [ok |-> TRUE, value |-> Arr([i \in Idx(par) |-> Arr([j \in Idx(par) |-> lst[j + 1]])])]
    ELSE [ok |-> FALSE, value |-> <<>>]

\* self.d and self.u as simulate creates them, with d[0] = d and u[0] = u
FirstSeries(pot) ==
    [u |-> IF cfg.poteng
           THEN Arr([k \in 0 .. cfg.N |-> IF k = 0 THEN pot.u ELSE 0])
           ELSE <<>>,
     d |-> IF cfg.distance
           THEN Arr([k \in 0 .. cfg.N |->
                       IF k = 0 THEN pot.d ELSE ZeroMat(Par(r[0]), Par(r[0]))])
           ELSE <<>>]

\* self.d[t] = d and self.u[t] = u with the (u, d) the integrator returned
Recorded(res) ==
    [u |-> IF cfg.poteng THEN [series.u EXCEPT ![t] = res.u] ELSE series.u,
     d |-> IF cfg.distance THEN [series.d EXCEPT ![t] = res.d] ELSE series.d]

\* the potential at r[0] and the first entries of the series; the dump file
\* is opened and step 0 is dumped
SimStart ==
    /\ cfg.driver = "simulate"
    /\ pc = "ready"
    /\ evals' = Append(evals, [step |-> -1, at |-> r[0]])
    /\ \E pot \in {LennardJones(r[0], cfg.cutoff, cfg.boundaries)} :
         series' = FirstSeries(pot)
    /\ \E ok \in WriteOutcomes :
         /\ file' = IF cfg.dumpfile
                    THEN [state |-> "open", opens |-> file.opens + 1,
                          dumped |-> IF ok THEN <<0>> ELSE <<>>]
                    ELSE file
         /\ pc' = IF ok THEN "loop" ELSE "raised"
    /\ UNCHANGED <<cfg, t, r, v, state, events, probe>>

\* one pass of the integration loop: the integrator, the dump of t+1, the
\* entries t of the series
SimStep(name) ==
    /\ cfg.driver = "simulate"
    /\ cfg.integrator = name
    /\ pc = "loop"
    /\ t < cfg.N
    /\ \E res \in {Integrate(name, t, r, v, cfg.dt, cfg.cutoff, cfg.boundaries)} :
           /\ r' = res.r
           /\ v' = res.v
           /\ evals' = evals \o [k \in 1 .. Len(res.at) |-> [step |-> t, at |-> res.at[k]]]
           /\ events' = Append(events,
                  [op |-> "integrate", task |-> 0, idx |-> t,
                   in |-> [NoState EXCEPT !.r = r[t], !.v = v[t]],
                   st |-> [NoState EXCEPT !.r = res.r[t + 1], !.v = res.v[t + 1]]])
           /\ \E ok \in WriteOutcomes :
                /\ file' = IF cfg.dumpfile /\ ok
                           THEN [file EXCEPT !.dumped = Append(@, t + 1)]
                           ELSE file
                /\ pc' = IF ok THEN "loop" ELSE "raised"
                /\ t' = IF ok THEN t + 1 ELSE t
                /\ series' = IF ok THEN Recorded(res) ELSE series
    /\ UNCHANGED <<cfg, state, probe>>

ForwardEulerStep == SimStep("forwardEuler")
EulerChromerStep == SimStep("eulerChromer")
VelocityVerletStep == SimStep("velocityVerlet")

\* self.d[self.N] = potential.calculateDistanceMatrix(self.r[-1])[1]: the
\* second value returned is the list of the squared distances below the
\* cutoff, not the matrix
LastDistance ==
    Broadcast(calculateDistanceMatrix(r[cfg.N], cfg.cutoff, cfg.boundaries).distanceSqrd,
              Par(r[0]))

\* after the loop: the dump file is closed, then the last entries of the
\* series are computed; potentialEnergy(m - l) lacks its argument cutoff and
\* raises TypeError
SimFinish ==
    /\ cfg.driver = "simulate"
    /\ pc = "loop"
    /\ t = cfg.N
    /\ file' = IF cfg.dumpfile THEN [file EXCEPT !.state = "closed"] ELSE file
    /\ \E last \in {IF cfg.distance THEN LastDistance
                    ELSE [ok |-> TRUE, value |-> <<>>]} :
         /\ series' = IF cfg.distance /\ last.ok
                      THEN [series EXCEPT !.d[cfg.N] = last.value]
                      ELSE series
         /\ pc' = IF last.ok /\ ~cfg.poteng THEN "done" ELSE "raised"
    /\ UNCHANGED <<cfg, t, r, v, state, events, evals, probe>>

Next ==
    \/ CallStart
    \/ CallStep
    \/ CallFinish
    \/ SimStart
    \/ ForwardEulerStep
    \/ EulerChromerStep
    \/ VelocityVerletStep
    \/ SimFinish

Spec == Init /\ [][Next]_vars

-----------------------------------------------------------------------------
(* construction of the solver: moleculardynamics.MDSolver.__init__ and    *)
(* mdsolver.MDSolver.__init__, as steps of their own before a run          *)

\* a Python value handed to a constructor: a str, a float, a list or a
\* tuple; the items of a row of coordinates are plain numbers
Py(type, text, items, value) ==
    [type |-> type, text |-> text, items |-> items, value |-> value]
PyStr(text) == Py("str", text, <<>>, 0)
PyFloat(x) == Py("float", "", <<>>, x)
PyList(items) == Py("list", "", items, 0)
PyTuple(items) == Py("tuple", "", items, 0)
PyNone == Py("None", "", <<>>, 0)

\* an array written as a nested list
NestedList(mat) ==
    PyList([i \in 1 .. Par(mat) |->
               PyList([k \in 1 .. Dim(mat) |-> mat[i - 1][k - 1]])])

\* the array np.array makes of a list of rows of the same length
ArrayOf(lst) ==
    Arr([i \in Idx(Len(lst.items)) |->
            Arr([k \in Idx(Len(lst.items[1].items)) |-> lst.items[i + 1].items[k + 1]])])

\* self.r[0] = positions succeeds when every row is a list as long as row 0
Assignable(lst, dim) ==
    \A i \in 1 .. Len(lst.items) :
        lst.items[i].type = "list" /\ Len(lst.items[i].items) = dim

\* the particles of one unit cell, in units of the cell length
UnitCell(dim) ==
    CASE dim = 1 -> <<<<0>>, <<Half(One)>>>>
      [] dim = 2 -> <<<<0, 0>>, <<0, Half(One)>>, <<Half(One), 0>>>>
      [] dim = 3 -> <<<<0, 0, 0>>, <<0, Half(One), Half(One)>>,
                      <<Half(One), 0, Half(One)>>, <<Half(One), Half(One), 0>>>>

\* the cell indices (i, j, k) of the cell with number m, the last running fastest
CellOf(n, dim, m) ==
    [k \in 1 .. dim |-> (m \div (n ^ (dim - k))) % n]

\* face_centered_cube(n, L, dim): self.r[0], or the ValueError of line 147
face_centered_cube(n, L, dim) ==
    IF dim \notin {1, 2, 3}
    THEN [ok |-> FALSE, error |-> "ValueError", r0 |-> <<>>]
    ELSE [ok |-> TRUE, error |-> "",
          r0 |-> Arr([p \in Idx((dim + 1) * n ^ dim) |->
                    Arr([k \in Idx(dim) |->
                        Mul(FAdd(Real(CellOf(n, dim, p \div (dim + 1))[k + 1]),
                                 UnitCell(dim)[(p % (dim + 1)) + 1][k + 1]),
                            Div(L, Real(n)))])])]

\* __init__, lines 53-62: the initial positions
InitPositions(args) ==
    IF args.positions.type = "str" /\ args.positions.text = "fcc"
    THEN face_centered_cube(args.cells, args.lenbulk, args.numdimensions)
    ELSE IF args.positions.type # "list"
    THEN [ok |-> FALSE, error |-> "TypeError", r0 |-> <<>>]
    ELSE IF args.positions.items = <<>>
    THEN [ok |-> FALSE, error |-> "IndexError", r0 |-> <<>>]
    ELSE IF args.positions.items[1].type # "list"
    THEN [ok |-> FALSE, error |-> "TypeError", r0 |-> <<>>]
    ELSE IF ~Assignable(args.positions, Len(args.positions.items[1].items))
    THEN [ok |-> FALSE, error |-> "ValueError", r0 |-> <<>>]
    ELSE [ok |-> TRUE, error |-> "", r0 |-> ArrayOf(args.positions)]

\* __init__, lines 64-68: boundaries[d] and dimension_labels[d] for d < D
InitBoundaries(args, pos) ==
    IF pos.ok /\ (Dim(pos.r0) > Len(args.boundaries) \/ Dim(pos.r0) > 3)
    THEN [ok |-> FALSE, error |-> "IndexError", r0 |-> <<>>]
    ELSE pos

\* __init__, lines 72-78: self.v; for a list, self.v[0] = velocity is an
\* assignment into an attribute that does not exist
InitVelocities(args, pos, n) ==
    IF ~pos.ok THEN {[ok |-> FALSE, error |-> pos.error, r0 |-> <<>>, v |-> <<>>]}
    ELSE CASE args.velocity.type = "None" ->
                {[ok |-> TRUE, error |-> "", r0 |-> pos.r0,
                  v |-> Arr([k \in 0 .. n |-> ZeroMat(Par(pos.r0), Dim(pos.r0))])]}
           [] args.velocity.type = "str" /\ args.velocity.text = "gauss" ->
                {[ok |-> TRUE, error |-> "", r0 |-> pos.r0,
                  v |-> Arr([k \in 0 .. n |-> IF k = 0 THEN first ELSE rest])] :
                     first \in GaussSamples(Par(pos.r0), Dim(pos.r0)),
                     rest \in {Ones(Par(pos.r0), Dim(pos.r0))}}
           [] args.velocity.type = "list" ->
                {[ok |-> FALSE, error |-> "AttributeError", r0 |-> <<>>, v |-> <<>>]}

\* moleculardynamics.MDSolver.__init__: its outcomes
Constructed(args) ==
    InitVelocities(args, InitBoundaries(args, InitPositions(args)),
                   NumSteps(args.T, args.dt))

\* MDSolver(...) of moleculardynamics.py
Construct ==
    /\ cfg.driver = "simulate"
    /\ pc = "new"
    /\ \E res \in Constructed(cfg) :
         IF res.ok
         THEN /\ cfg' = [Config("simulate", res.r0, res.v[0], cfg.T, cfg.dt,
                                cfg.integrator, cfg.kind, 0, cfg.dumpfile)
                            EXCEPT !.poteng = cfg.poteng,
                                   !.distance = cfg.distance] @@ cfg
              /\ r' = Arr([k \in 0 .. NumSteps(cfg.T, cfg.dt) |->
                             IF k = 0 THEN res.r0
                             ELSE ZeroMat(Par(res.r0), Dim(res.r0))])
              /\ v' = res.v
              /\ pc' = "ready"
         ELSE /\ pc' = "rejected"
              /\ UNCHANGED <<cfg, r, v>>
    /\ UNCHANGED <<t, state, events, evals, file, probe, series>>

\* positions(): the array of a positions source
PositionsSource(positions) == ArrayOf(positions)

\* velocities(par, dim): zeros, or the array of the list of SetVelocities
VelocitiesSource(velocity, par, dim) ==
    IF velocity.type = "list" THEN ArrayOf(velocity) ELSE ZeroMat(par, dim)

\* MDSolver(...) of the mdsolver package
ConstructCall ==
    /\ cfg.driver = "call"
    /\ pc = "new"
    /\ \E r0 \in {PositionsSource(cfg.positions)} :
         \E v0 \in {VelocitiesSource(cfg.velocity, Par(r0), Dim(r0))} :
            /\ cfg' = Config("call", r0, v0, cfg.T, cfg.dt, cfg.integrator,
                             cfg.kind, cfg.ntasks, FALSE) @@ cfg
            /\ state' = [NoState EXCEPT !.r = r0, !.v = v0]
    /\ pc' = "ready"
    /\ UNCHANGED <<t, r, v, events, evals, file, probe, series>>

\* position arguments that are no list of coordinate rows of one length
MalformedPositions ==
    { PyList(<<>>),
      PyList(<<PyFloat(0), PyFloat(OneAndHalf)>>),
      PyList(<<PyList(<<0>>), PyList(<<Real(1), Real(2)>>)>>),
      PyList(<<PyList(<<0>>), PyFloat(Real(1))>>),
      PyTuple(<<PyList(<<0>>), PyList(<<OneAndHalf>>)>>),
      PyStr("bcc") }

\* rows of zero and of four coordinates
OutOfRangePositions ==
    { PyList(<<PyList(<<>>), PyList(<<>>)>>),
      PyList(<<PyList(<<0, 0, 0, 0>>), PyList(<<Real(1), Real(1), Real(1), Real(1)>>)>>) }

WellFormedPositions == {NestedList(p) : p \in InitialPositions}

\* the velocity arguments that go with a positions argument
VelocityArguments(positions) ==
    {PyNone, PyStr("gauss")}
    \cup IF positions \in WellFormedPositions
         THEN {NestedList(Alternating(Len(positions.items),
                                      Len(positions.items[1].items)))}
         ELSE {}

\* the arguments of MDSolver(...) and of simulate(...) / solver(...)
Arguments(driver, positions, velocity, numdimensions, kind, T, dt, integrator, ntasks, dumpfile, record) ==
    [driver |-> driver, positions |-> positions, velocity |-> velocity,
     numdimensions |-> numdimensions, cells |-> 1, lenbulk |-> Lenbulk,
     kind |-> kind, boundaries |-> <<kind, kind, kind>>, T |-> T, dt |-> dt,
     integrator |-> integrator, ntasks |-> ntasks, dumpfile |-> dumpfile,
     poteng |-> record, distance |-> record]

InitCtorSimulate ==
    \E positions \in {PyStr("fcc")} \cup WellFormedPositions
                         \cup MalformedPositions \cup OutOfRangePositions,
       kind \in Kinds, dt \in TimeSteps, integrator \in IntegratorMethods,
       dumpfile \in BOOLEAN, record \in BOOLEAN :
      \E velocity \in VelocityArguments(positions), T \in TotalTimes(dt),
         numdimensions \in IF positions = PyStr("fcc") THEN 0 .. 4 ELSE {3} :
        cfg = Arguments("simulate", positions, velocity, numdimensions, kind,
                        T, dt, integrator, 0, dumpfile, record)

InitCtorCall ==
    \E positions \in WellFormedPositions, kind \in Kinds, dt \in TimeSteps,
       integrator \in IntegratorObjects, ntasks \in 0 .. MaxTasks :
      \E velocity \in VelocityArguments(positions) \ {PyStr("gauss")},
         T \in TotalTimes(dt) :
        cfg = Arguments("call", positions, velocity, 3, kind, T, dt,
                        integrator, ntasks, FALSE, FALSE)

InitCtor ==
    /\ (InitCtorSimulate \/ InitCtorCall)
    /\ pc = "new"
    /\ t = 0
    /\ r = <<>>
    /\ v = <<>>
    /\ state = NoState
    /\ events = <<>>
    /\ evals = <<>>
    /\ file = NoFile
    /\ probe = NoProbe
    /\ series = NoSeries

NextCtor ==
    \/ Construct
    \/ ConstructCall
    \/ Next

SpecCtor == InitCtor /\ [][NextCtor]_vars

-----------------------------------------------------------------------------
(* the run loop of both drivers *)

\* C1: in a run of MDSolver.__call__ every task's update hook is called
\* N+1 times, and the indices it is handed are 0, 1, ..., N in this order,
\* each once: the k-th call of a task (counted from 1) carries index k-1.
C1_UpdateIndices ==
    cfg.driver = "call" =>
        \A i \in 1 .. cfg.ntasks :
            LET ups == SelectSeq(events, LAMBDA e : e.op = "update" /\ e.task = i)
            IN  /\ \A k \in 1 .. Len(ups) : ups[k].idx = k - 1
                /\ pc = "done" => Len(ups) = cfg.N + 1

\* C2: the integrator runs N = floor(T/dt) times and then the run ends; run
\* k+1 consumes the state run k returned, the first one the state built from
\* the initial positions and velocities; in MDSolver.__call__ every task has
\* been updated with a state before the integrator consumes it.
C2_IntegratorRuns ==
    cfg.driver \in {"call", "simulate"} =>
        LET ints == SelectSeq(events, LAMBDA e : e.op = "integrate")
        IN  /\ cfg.N * cfg.dt <= cfg.T /\ cfg.T < (cfg.N + 1) * cfg.dt
            /\ Len(ints) <= cfg.N
            /\ pc = "done" => Len(ints) = cfg.N /\ ~ENABLED Next
            /\ \A k \in 1 .. Len(ints) :
                  /\ ints[k].idx = k - 1
                  /\ IF k = 1
                     THEN ints[k].in.r = cfg.r0 /\ ints[k].in.v = cfg.v0
                     ELSE ints[k].in = ints[k - 1].st
            /\ cfg.driver = "call" =>
                  \A p \in 1 .. Len(events) :
                    events[p].op = "integrate" =>
                      /\ p > cfg.ntasks
                      /\ \A i \in 1 .. cfg.ntasks :
                            LET e == events[p - cfg.ntasks + i - 1]
                            IN  e.op = "update" /\ e.task = i /\ e.st = events[p].in

\* a finished run of MDSolver.__call__ with several steps and several tasks,
\* in which the state changed from step to step
C2_Witness ==
    /\ cfg.driver = "call"
    /\ pc = "done"
    /\ cfg.N = MaxSteps
    /\ cfg.ntasks = MaxTasks
    /\ Len(SelectSeq(events, LAMBDA e : e.op = "integrate")) = MaxSteps
    /\ state.r # cfg.r0

\* C3: after the loop every task is finalised once, in task order; no task
\* is finalised before the run is over, and nothing is logged after a
\* finalisation but further finalisations.
C3_Finalize ==
    cfg.driver = "call" =>
        LET fins == SelectSeq(events, LAMBDA e : e.op = "final")
            n == Len(events)
        IN  /\ pc # "done" => fins = <<>>
            /\ pc = "done" =>
                  /\ Len(fins) = cfg.ntasks
                  /\ \A i \in 1 .. cfg.ntasks : fins[i].task = i
                  /\ \A i \in 1 .. cfg.ntasks :
                        Len(SelectSeq(SubSeq(events, 1, n - cfg.ntasks),
                                      LAMBDA e : e.op = "update" /\ e.task = i))
                            = cfg.N + 1
            /\ \A p \in 1 .. n : \A q \in p .. n :
                  events[p].op = "final" => events[q].op = "final"

\* a finished run of MDSolver.__call__ with several tasks and at least one step
C3_Witness ==
    /\ cfg.driver = "call"
    /\ pc = "done"
    /\ cfg.ntasks = MaxTasks
    /\ cfg.N >= 1
    /\ events[Len(events)].op = "final"
    /\ events[Len(events)].task = MaxTasks

-----------------------------------------------------------------------------
(* one evaluation of the potential *)

\* C4: the force on particle i due to j is minus the force on j due to i,
\* for every pair of every snapshot; the net force on a particle is the sum
\* of its pair forces, and the net forces of all particles add up to zero.
C4_Antisymmetry ==
    (cfg.driver = "potential" /\ pc = "done") =>
        LET par == Par(probe.pos)
            dim == Dim(probe.pos)
        IN  /\ \A i \in Idx(par), j \in Idx(par) :
                  probe.force2[i][j] = VNeg(probe.force2[j][i])
            /\ \A i \in Idx(par), c \in Idx(dim) :
                  probe.a[i][c] = SumTo([j \in Idx(par) |-> probe.force2[i][j][c]], par)
            /\ \A c \in Idx(dim) :
                  SumTo([i \in Idx(par) |-> probe.a[i][c]], par) = 0

\* three particles of which two exert a force on each other, one of them
\* with a net force
C4_Witness ==
    /\ cfg.driver = "potential"
    /\ pc = "done"
    /\ Par(probe.pos) = 3
    /\ \E i \in Idx(3), j \in Idx(3) :
          /\ probe.force2[i][j] # ZeroVec(Dim(probe.pos))
          /\ probe.a[i] # ZeroVec(Dim(probe.pos))

\* C5: a pair whose squared distance is not below cutoff^2 exerts no force,
\* and the energy is summed over exactly the pairs below the cutoff: one
\* term per such pair, in upper-triangle order, and none for the others.
C5_Cutoff ==
    (cfg.driver = "potential" /\ pc = "done") =>
        LET par == Par(probe.pos)
            rc2 == Mul(cfg.cutoff, cfg.cutoff)
            kept == SelectSeq(triu_indices(par),
                              LAMBDA q : Less(probe.d[q[1]][q[2]], rc2))
        IN  /\ \A i \in Idx(par), j \in Idx(par) :
                  ~Less(probe.d[i][j], rc2) =>
                      probe.force2[i][j] = ZeroVec(Dim(probe.pos))
            /\ Len(probe.energy) = Len(kept)
            /\ \A k \in 1 .. Len(kept) :
                  probe.energy[k] =
                      Kernel(<<probe.d[kept[k][1]][kept[k][2]]>>,
                             <<ZeroVec(Dim(probe.pos))>>).energy[1]
            /\ probe.u = potentialEnergy(probe.energy, cfg.cutoff)

\* a pair exactly at the cutoff beside a pair that exerts a force
C5_Witness ==
    /\ cfg.driver = "potential"
    /\ pc = "done"
    /\ \E i \in DOMAIN probe.pos, j \in DOMAIN probe.pos :
          probe.d[i][j] = Mul(cfg.cutoff, cfg.cutoff)
    /\ \E i \in DOMAIN probe.pos, j \in DOMAIN probe.pos :
          probe.force2[i][j] # ZeroVec(Dim(probe.pos))

\* C6: the matrix of squared distances the potential returns has an entry
\* for every ordered pair, is symmetric with a zero diagonal, and is the same
\* for every cutoff: a pair beyond the cutoff keeps its distance. Without
\* periodic boundaries the entry is the squared Euclidean distance.
C6_DistanceMatrix ==
    (cfg.driver = "potential" /\ pc = "done") =>
        LET par == Par(probe.pos)
        IN  /\ DOMAIN probe.d = Idx(par)
            /\ \A i \in Idx(par) :
                  /\ DOMAIN probe.d[i] = Idx(par)
                  /\ probe.d[i][i] = 0
                  /\ \A j \in Idx(par) : probe.d[i][j] = probe.d[j][i]
            /\ \A c \in Cutoffs :
                  calculateDistanceMatrix(probe.pos, c, cfg.boundaries).distanceSqrdAll
                      = probe.d
            /\ (\A k \in DOMAIN cfg.boundaries : cfg.boundaries[k].type # "p") =>
                  \A i \in Idx(par), j \in Idx(par) :
                      probe.d[i][j] =
                          SumTo([k \in Idx(Dim(probe.pos)) |->
                                    Mul(probe.pos[i][k] - probe.pos[j][k],
                                        probe.pos[i][k] - probe.pos[j][k])],
                                Dim(probe.pos))

\* three particles, one pair of them beyond the cutoff with its distance kept
C6_Witness ==
    /\ cfg.driver = "potential"
    /\ pc = "done"
    /\ Par(probe.pos) = 3
    /\ \E i \in Idx(3), j \in Idx(3) :
          /\ ~Less(probe.d[i][j], Mul(cfg.cutoff, cfg.cutoff))
          /\ probe.d[i][j] > Mul(cfg.cutoff, cfg.cutoff)

-----------------------------------------------------------------------------
(* the integrators of MDSolver.simulate *)

\* C7: forwardEuler sets v[t+1] = v[t] + a(r[t]) dt and r[t+1] = r[t] +
\* v[t] dt; eulerChromer sets the same v[t+1] and r[t+1] = r[t] + v[t+1] dt;
\* each evaluates the potential exactly once per step, at r[t].
C7_EulerSteps ==
    (cfg.driver = "simulate"
        /\ cfg.integrator \in {"forwardEuler", "eulerChromer"}) =>
        \A k \in 0 .. (Len(SelectSeq(events, LAMBDA e : e.op = "integrate")) - 1) :
            LET a == LennardJones(r[k], cfg.cutoff, cfg.boundaries).a
            IN  /\ v[k + 1] = MAdd(v[k], MScale(cfg.dt, a))
                /\ r[k + 1] = MAdd(r[k], MScale(cfg.dt,
                                 IF cfg.integrator = "forwardEuler"
                                 THEN v[k] ELSE v[k + 1]))
                /\ SelectSeq(evals, LAMBDA e : e.step = k)
                       = <<[step |-> k, at |-> r[k]]>>

\* a finished eulerChromer run of several steps whose velocity changed in
\* the first step, so that the old and the new velocity differ
C7_Witness ==
    /\ cfg.driver = "simulate"
    /\ cfg.integrator = "eulerChromer"
    /\ pc = "done"
    /\ cfg.N = MaxSteps
    /\ v[1] # v[0]
    /\ r[2] # r[1]

\* C8: velocityVerlet evaluates the potential twice per step, first at
\* r[t] and then at r[t+1]; r[t+1] = r[t] + v[t] dt + a(r[t]) dt^2 / 2 is
\* there before the second evaluation, and v[t+1] = v[t] +
\* (a(r[t+1]) + a(r[t])) dt / 2.
C8_VelocityVerlet ==
    (cfg.driver = "simulate" /\ cfg.integrator = "velocityVerlet") =>
        \A k \in 0 .. (Len(SelectSeq(events, LAMBDA e : e.op = "integrate")) - 1) :
            LET a == LennardJones(r[k], cfg.cutoff, cfg.boundaries).a
                aNew == LennardJones(r[k + 1], cfg.cutoff, cfg.boundaries).a
            IN  /\ SelectSeq(evals, LAMBDA e : e.step = k)
                       = <<[step |-> k, at |-> r[k]], [step |-> k, at |-> r[k + 1]]>>
                /\ r[k + 1] = MAdd(MAdd(r[k], MScale(cfg.dt, v[k])),
                                   MScale(Mul(cfg.dt, cfg.dt), MHalf(a)))
                /\ v[k + 1] = MAdd(v[k], MScale(cfg.dt, MHalf(MAdd(aNew, a))))

\* a finished velocityVerlet run of several steps in which the force at the
\* new positions differs from the force at the old ones
C8_Witness ==
    /\ cfg.driver = "simulate"
    /\ cfg.integrator = "velocityVerlet"
    /\ pc = "done"
    /\ cfg.N = MaxSteps
    /\ LennardJones(r[1], cfg.cutoff, cfg.boundaries).a
           # LennardJones(r[0], cfg.cutoff, cfg.boundaries).a

\* C9: in a dimension with a periodic or a reflective boundary, every
\* position an integrator of MDSolver.simulate has stored lies within the
\* bounds of the box.
C9_PositionsInBox ==
    cfg.driver = "simulate" =>
        \A k \in 1 .. Len(SelectSeq(events, LAMBDA e : e.op = "integrate")) :
            \A i \in DOMAIN r[k] : \A c \in DOMAIN r[k][i] :
                cfg.boundaries[c].type \in {"r", "p"} =>
                    /\ cfg.boundaries[c].lo <= r[k][i][c]
                    /\ r[k][i][c] <= cfg.boundaries[c].hi

\* C10: MDSolver.simulate opens the dump file at most once, and the file is
\* closed however the run ends, by completion or by an exception.
C10_DumpFileClosed ==
    (cfg.driver = "simulate" /\ cfg.dumpfile) =>
        /\ file.opens <= 1
        /\ pc \in {"done", "raised"} => (file.opens = 1 /\ file.state = "closed")

\* C13: the net force on particle i is the sum, over the particles j # i
\* with d2[i][j] < cutoff^2, of 24 factor(d2[i][j]) dr[i][j], where dr[i][j]
\* is the displacement r[i] - r[j] the distance is taken from; every such
\* pair i < j has +F in slot (i,j) and -F in slot (j,i), every other slot is
\* zero, and no slot is written twice.
C13_ScatterIsNaive ==
    (cfg.driver = "potential" /\ pc = "done") =>
        LET par == Par(probe.pos)
            dim == Dim(probe.pos)
            rc2 == Mul(cfg.cutoff, cfg.cutoff)
            dr == checkDistance(cfg.boundaries, Displacements(probe.pos))
            within(i, j) == i # j /\ Less(probe.d[i][j], rc2)
            F(i, j) == Kernel(<<probe.d[i][j]>>, <<dr[i][j]>>).force[1]
            pairs == {q \in Idx(par) \X Idx(par) : q[1] < q[2] /\ within(q[1], q[2])}
            indices == calculateDistanceMatrix(probe.pos, cfg.cutoff,
                                               cfg.boundaries).indices
            c == SlotsC(par, triu_indices(par), indices)
            f == SlotsF(par, triu_indices(par), indices)
        IN  /\ \A i \in Idx(par), k \in Idx(dim) :
                  probe.a[i][k] =
                      SumTo([j \in Idx(par) |->
                                IF within(i, j) THEN F(i, j)[k] ELSE 0], par)
            /\ \A q \in pairs :
                  /\ probe.force2[q[1]][q[2]] = F(q[1], q[2])
                  /\ probe.force2[q[2]][q[1]] = VNeg(F(q[1], q[2]))
            /\ \A i \in Idx(par), j \in Idx(par) :
                  ~within(i, j) => probe.force2[i][j] = ZeroVec(dim)
            /\ Len(c) = Cardinality(pairs) /\ Len(f) = Cardinality(pairs)
            /\ {c[k] : k \in 1 .. Len(c)} = {q[1] * par + q[2] : q \in pairs}
            /\ {f[k] : k \in 1 .. Len(f)} = {q[2] * par + q[1] : q \in pairs}
            /\ \A k1 \in 1 .. Len(c), k2 \in 1 .. Len(f) : c[k1] # f[k2]
            /\ (\A k \in DOMAIN cfg.boundaries : cfg.boundaries[k].type # "p") =>
                  \A i \in Idx(par), j \in Idx(par) :
                      dr[i][j] = VSub(probe.pos[i], probe.pos[j])

\* a particle with two neighbours within the cutoff that both exert a force
\* on it, and with a net force
C13_Witness ==
    /\ cfg.driver = "potential"
    /\ pc = "done"
    /\ \E i \in DOMAIN probe.pos, j1 \in DOMAIN probe.pos, j2 \in DOMAIN probe.pos :
          /\ j1 # j2
          /\ probe.force2[i][j1] # ZeroVec(Dim(probe.pos))
          /\ probe.force2[i][j2] # ZeroVec(Dim(probe.pos))
          /\ probe.a[i] # ZeroVec(Dim(probe.pos))

\* C14: once simulate is over with poteng and distance on, it has returned
\* normally and for every k in 0..N the energy u[k] is the potential energy
\* at the positions r[k] and d[k] is the matrix of squared distances of
\* r[k], whatever the integrator.
C14_SeriesAligned ==
    (cfg.driver = "simulate" /\ cfg.poteng /\ cfg.distance
        /\ (pc = "done" \/ (pc = "raised" /\ file.state # "open"))) =>
        /\ pc = "done"
        /\ \A k \in 0 .. cfg.N :
              LET pot == LennardJones(r[k], cfg.cutoff, cfg.boundaries)
              IN  series.u[k] = pot.u /\ series.d[k] = pot.d

-----------------------------------------------------------------------------
(* construction *)

\* C11: when the positions argument of MDSolver(...) is neither 'fcc' nor a
\* list of coordinate lists of one length, or when the dimensionality (the
\* numdimensions of the lattice, the length of the rows of a list) is
\* outside {1,2,3}, construction raises: the solver is never ready, the
\* potential is never evaluated and no integrator runs.
C11_ConfigErrors ==
    LET p == cfg.positions
        fcc == p.type = "str" /\ p.text = "fcc"
        rows == p.type = "list" /\ p.items # <<>>
                    /\ \A i \in 1 .. Len(p.items) :
                          /\ p.items[i].type = "list"
                          /\ Len(p.items[i].items) = Len(p.items[1].items)
        valid == \/ fcc /\ cfg.numdimensions \in {1, 2, 3}
                 \/ rows /\ Len(p.items[1].items) \in {1, 2, 3}
    IN  (cfg.driver = "simulate" /\ ~valid) =>
            /\ pc \in {"new", "rejected"}
            /\ evals = <<>>
            /\ events = <<>>

\* C12: constructed from a list of positions and from a list of velocities
\* or no velocity, the solver is ready and its step-0 positions are the
\* list of positions, its step-0 velocities the list of velocities or
\* zeros; the first integrator run consumes these.
C12_InitialConditions ==
    (pc # "new" /\ cfg.positions \in WellFormedPositions
        /\ cfg.velocity.type \in {"list", "None"}) =>
        LET r0 == ArrayOf(cfg.positions)
            v0 == IF cfg.velocity.type = "list" THEN ArrayOf(cfg.velocity)
                  ELSE ZeroMat(Par(r0), Dim(r0))
            ints == SelectSeq(events, LAMBDA e : e.op = "integrate")
        IN  /\ pc # "rejected"
            /\ cfg.driver = "simulate" => (r[0] = r0 /\ v[0] = v0)
            /\ (cfg.driver = "call" /\ pc = "ready") =>
                   (state.r = r0 /\ state.v = v0)
            /\ ints # <<>> => (ints[1].in.r = r0 /\ ints[1].in.v = v0)

=============================================================================
